---- MODULE Spec2Model ----
(***************************************************************************)
(* A model of the CrudeServer HTTP server (src/exercise2/project/main.py): *)
(* the TCP accept loop of TCPServer.start, the request parser HTTPRequest, *)
(* the dispatch of HTTPServer.handle_request and its three handlers, and   *)
(* the directory renderer render_directory_contents.                       *)
(*                                                                         *)
(* Representation.  A Python bytes object is a sequence of byte tokens, a  *)
(* Python str a sequence of characters; both are sequences of one-         *)
(* character TLA+ strings ("G", "/", "\r").  The token NonAscii stands for  *)
(* the single byte 0xFF, which no UTF-8 text contains.  Str(s) is the text  *)
(* of a character sequence as one TLA+ string, used to format and compare. *)
(* An optional value (Python None or a value) is <<>> or <<v>>.            *)
(***************************************************************************)
EXTENDS Integers, Sequences, FiniteSets, TLC

VARIABLES
    pc,            \* position of TCPServer.start: accept, recv, handle, send, close, crashed
    accepted,      \* number of connections accept() has returned so far
    conn,          \* the connection of the current iteration (0: none yet)
    open,          \* accepted connections not yet closed
    reads,         \* recv() calls made on the current connection
    data,          \* <<buffer>> returned by recv for the current connection, or <<>>
    request,       \* the HTTPRequest built for the current connection, or NoRequest
    response,      \* the outcome of handle_request for the current connection, or NoResponse
    sent,          \* what sendall() has written in full so far: connection and header mapping
    exc,           \* the exception that left the loop ("none" while it runs)
    headers,       \* HTTPServer.headers, the class-level mapping, as <<key, value>> pairs in dict order
    status_codes   \* HTTPServer.status_codes, the class-level table

vars == <<pc, accepted, conn, open, reads, data, request, response, sent, exc,
          headers, status_codes>>

\* ---------------------------------------------------------------- bounds
MaxConns == 2

\* the size of the single read, conn.recv(1024)
ReadSize == 1024

\* ---------------------------------------------------------------- text
\* Characters.  A printable ASCII character is the TLA+ string holding it, CR
\* and LF are "\r" and "\n", and the character of any other code point n is the
\* token "<U+n>" (n in decimal).  The bytes the server reads are ASCII bytes or
\* the byte 0xFF, so every str the parser produces is ASCII; characters beyond
\* ASCII come from percent-decoding only.
NonAscii == "<FF>"

Range(s) == {s[i] : i \in 1..Len(s)}

RECURSIVE Str(_)
Str(s) ==
    IF s = <<>> THEN ""
    ELSE IF Len(s) = 1 THEN s[1]
    ELSE Str(SubSeq(s, 1, Len(s) \div 2)) \o Str(SubSeq(s, Len(s) \div 2 + 1, Len(s)))

\* the k-th smallest member of a set of positions, and the subsequence of s at
\* the positions of a set, in order
Nth(S, k) == CHOOSE p \in S : Cardinality({q \in S : q <= p}) = k
Pick(s, S) == [k \in 1..Cardinality(S) |-> s[Nth(S, k)]]

\* the character 0x60, which a TLA+ string literal cannot hold
Backtick == "<60>"

\* the printable ASCII characters, 0x20 .. 0x7E, in code order
Printable ==
    << " ", "!", "\"", "#", "$", "%", "&", "'", "(", ")", "*", "+", ",", "-", ".", "/",
       "0", "1", "2", "3", "4", "5", "6", "7", "8", "9", ":", ";", "<", "=", ">", "?",
       "@", "A", "B", "C", "D", "E", "F", "G", "H", "I", "J", "K", "L", "M", "N", "O",
       "P", "Q", "R", "S", "T", "U", "V", "W", "X", "Y", "Z", "[", "\\", "]", "^", "_",
       Backtick, "a", "b", "c", "d", "e", "f", "g", "h", "i", "j", "k", "l", "m", "n", "o",
       "p", "q", "r", "s", "t", "u", "v", "w", "x", "y", "z", "{", "|", "}", "~" >>

\* the largest code point, and U+FFFD, which replaces undecodable bytes
MaxCodePoint == 1114111
Replacement == 65533

\* chr() and ord()
Chr(n) ==
    IF n >= 32 /\ n <= 126 THEN Printable[n - 31]
    ELSE IF n = 10 THEN "\n"
    ELSE IF n = 13 THEN "\r"
    ELSE "<U+" \o ToString(n) \o ">"

Ord(c) ==
    IF c = "\n" THEN 10
    ELSE IF c = "\r" THEN 13
    ELSE IF c \in Range(Printable) THEN CHOOSE n \in 32..126 : Printable[n - 31] = c
    ELSE CHOOSE n \in 0..MaxCodePoint : Chr(n) = c

\* the number of bytes of a character in UTF-8
utf8_len(c) ==
    IF c \in Range(Printable) \cup {"\r", "\n"} THEN 1
    ELSE IF Ord(c) < 128 THEN 1
    ELSE IF Ord(c) < 2048 THEN 2
    ELSE IF Ord(c) < 65536 THEN 3
    ELSE 4

HexUpper == <<"0", "1", "2", "3", "4", "5", "6", "7", "8", "9", "A", "B", "C", "D", "E", "F">>
HexLower == <<"0", "1", "2", "3", "4", "5", "6", "7", "8", "9", "a", "b", "c", "d", "e", "f">>
IsHexDigit(c) == c \in Range(HexUpper) \cup Range(HexLower)
HexVal(c) == (CHOOSE i \in 1..16 : HexUpper[i] = c \/ HexLower[i] = c) - 1

\* urllib.parse.unquote_to_bytes: "%XX" with two hex digits becomes the byte
\* XX, any other character its own byte; one pass, left to right.  The digits
\* of an escape are not "%", so the escapes are the positions escape_at finds.
escape_at(s, i) ==
    s[i] = "%" /\ i + 2 <= Len(s) /\ IsHexDigit(s[i + 1]) /\ IsHexDigit(s[i + 2])

unquote_to_bytes(s) ==
    LET kept == {i \in 1..Len(s) : /\ ~(i > 1 /\ escape_at(s, i - 1))
                                   /\ ~(i > 2 /\ escape_at(s, i - 2))}
    IN  [k \in 1..Cardinality(kept) |->
            LET i == Nth(kept, k)
            IN  IF escape_at(s, i) THEN 16 * HexVal(s[i + 1]) + HexVal(s[i + 2])
                ELSE Ord(s[i])]

\* bytes.decode("utf-8", "replace"), the code points it yields.  A lead byte
\* takes the continuation bytes that are valid after it; a complete sequence is
\* its code point, an incomplete one, a stray continuation byte or a byte that
\* never occurs in UTF-8 is U+FFFD.
IsCont(x) == x >= 128 /\ x <= 191

SeqLen(x) ==
    IF x >= 194 /\ x <= 223 THEN 2
    ELSE IF x >= 224 /\ x <= 239 THEN 3
    ELSE IF x >= 240 /\ x <= 244 THEN 4
    ELSE 1

SecondOk(lead, x) ==
    IF lead = 224 THEN x >= 160 /\ x <= 191
    ELSE IF lead = 237 THEN x >= 128 /\ x <= 159
    ELSE IF lead = 240 THEN x >= 144 /\ x <= 191
    ELSE IF lead = 244 THEN x >= 128 /\ x <= 143
    ELSE IsCont(x)

ValidAt(b, i, k) ==
    /\ i + k <= Len(b)
    /\ k < SeqLen(b[i])
    /\ IF k = 1 THEN SecondOk(b[i], b[i + 1]) ELSE IsCont(b[i + k])

PrefixLen(b, i) == 1 + Cardinality({k \in 1..3 : \A j \in 1..k : ValidAt(b, i, j)})

Absorbed(b, j) ==
    \E k \in 1..3 : j - k >= 1 /\ SeqLen(b[j - k]) > 1 /\ PrefixLen(b, j - k) > k

CodePointAt(b, i) ==
    IF b[i] < 128 THEN b[i]
    ELSE IF SeqLen(b[i]) = 1 \/ PrefixLen(b, i) < SeqLen(b[i]) THEN Replacement
    ELSE IF SeqLen(b[i]) = 2 THEN (b[i] - 192) * 64 + (b[i + 1] - 128)
    ELSE IF SeqLen(b[i]) = 3
         THEN (b[i] - 224) * 4096 + (b[i + 1] - 128) * 64 + (b[i + 2] - 128)
    ELSE (b[i] - 240) * 262144 + (b[i + 1] - 128) * 4096 + (b[i + 2] - 128) * 64
         + (b[i + 3] - 128)

utf8_decode_replace(b) ==
    LET starts == {i \in 1..Len(b) : ~Absorbed(b, i)}
    IN  [k \in 1..Cardinality(starts) |-> CodePointAt(b, Nth(starts, k))]

\* urllib.parse.unquote of an ASCII str: returned as it is when it holds no "%",
\* else unquote_to_bytes(string).decode("utf-8", "replace")
unquote(s) ==
    IF "%" \notin Range(s) THEN s
    ELSE [k \in 1..Len(utf8_decode_replace(unquote_to_bytes(s))) |->
             Chr(utf8_decode_replace(unquote_to_bytes(s))[k])]

\* urllib.parse.quote with the default safe="/": letters, digits and "_.-~/" are
\* kept, any other ASCII character becomes "%XX" in upper-case hex
AlwaysSafe ==
    { Printable[i] : i \in (17..26) \cup (34..59) \cup (66..91) } \cup {"_", ".", "-", "~", "/"}

RECURSIVE quote(_)
quote(s) ==
    IF s = <<>> THEN <<>>
    ELSE (IF s[1] \in AlwaysSafe
          THEN <<s[1]>>
          ELSE <<"%", HexUpper[(Ord(s[1]) \div 16) + 1], HexUpper[(Ord(s[1]) % 16) + 1]>>)
         \o quote(Tail(s))

\* str.strip("/"): drop every leading and every trailing "/"
strip_slash(s) ==
    LET keep == {i \in 1..Len(s) : s[i] # "/"}
    IN  IF keep = {} THEN <<>>
        ELSE SubSeq(s, CHOOSE i \in keep : \A j \in keep : i <= j,
                       CHOOSE i \in keep : \A j \in keep : j <= i)

\* bytes.split(sep) for a one-byte separator: the pieces between the separators
split1(s, sep) ==
    LET seps == {i \in 1..Len(s) : s[i] = sep}
        n == Cardinality(seps)
    IN  [k \in 1..(n + 1) |->
            SubSeq(s, IF k = 1 THEN 1 ELSE Nth(seps, k - 1) + 1,
                      IF k = n + 1 THEN Len(s) ELSE Nth(seps, k) - 1)]

\* data.split(b"\r\n")[0]: the bytes before the first CR LF (all of them when
\* there is none)
first_line(s) ==
    LET hits == {k \in 1..(Len(s) - 1) : s[k] = "\r" /\ s[k + 1] = "\n"}
    IN  IF hits = {} THEN s
        ELSE SubSeq(s, 1, (CHOOSE k \in hits : \A j \in hits : k <= j) - 1)

\* bytes.decode(): UTF-8, strict.  <<text>> when every byte is ASCII (an ASCII
\* byte is the character of the same code), <<>> when the byte 0xFF makes it
\* raise UnicodeDecodeError.
decode(b) == IF NonAscii \in Range(b) THEN <<>> ELSE <<b>>

\* ---------------------------------------------------------------- HTTPRequest
\* An HTTPRequest: raised is "none" or the exception __init__ left with;
\* method, uri are optional str; http_version is the str "1.1" or the bytes of
\* the third word (line 225 does not decode them).
NoRequest == [raised |-> "unset", method |-> <<>>, uri |-> <<>>, http_version |-> <<>>]

DefaultVersion == <<"1", ".", "1">>

words_of(buf) == split1(first_line(buf), " ")

uri_word_present(words) == Len(words) > 1

version_word_present(words) == Len(words) > 2

parse(buf) ==
    LET words == words_of(buf)
        base  == [raised |-> "none", method |-> <<>>, uri |-> <<>>,
                  http_version |-> DefaultVersion]
    IN  IF decode(words[1]) = <<>>
        THEN [base EXCEPT !.raised = "UnicodeDecodeError"]
        ELSE IF uri_word_present(words) /\ decode(words[2]) = <<>>
        THEN [base EXCEPT !.raised = "UnicodeDecodeError", !.method = decode(words[1])]
        ELSE [base EXCEPT
                !.method = decode(words[1]),
                !.uri = IF uri_word_present(words) THEN decode(words[2]) ELSE <<>>,
                !.http_version = IF version_word_present(words) THEN words[3]
                                 ELSE DefaultVersion]

\* ---------------------------------------------------------------- filesystem
\* The filesystem: a fixed tree, keyed by the names from the root down.  The
\* server runs in /srv, the only entry of the root.  entries is the order
\* iterdir() yields.  "p" is a FIFO: a directory entry that is neither a regular
\* file nor a directory.  "e.txt" is a directory whose name carries an extension.
File(content) == [kind |-> "file", content |-> content, entries |-> <<>>]
Dir(entries)  == [kind |-> "dir", content |-> "", entries |-> entries]
Fifo          == [kind |-> "fifo", content |-> "", entries |-> <<>>]

\* the names in the tree, as character sequences
Name_srv   == <<"s", "r", "v">>
Name_a_txt == <<"a", ".", "t", "x", "t">>
Name_d     == <<"d">>
Name_p     == <<"p">>
Name_e_txt == <<"e", ".", "t", "x", "t">>
Name_g     == <<"g">>
Name_s     == <<"s">>
Name_b_c   == <<"b", " ", "c">>
Name_h     == <<"h">>
Name_k     == <<"k">>

Cwd == <<Name_srv>>

FS ==
    (<<>> :> Dir(<<Name_srv>>)) @@
    (Cwd :> Dir(<<Name_a_txt, Name_d, Name_p, Name_e_txt>>)) @@
    (Cwd \o <<Name_a_txt>> :> File("hello")) @@
    (Cwd \o <<Name_d>> :> Dir(<<Name_g, Name_s, Name_b_c>>)) @@
    (Cwd \o <<Name_d, Name_g>> :> File("")) @@
    (Cwd \o <<Name_d, Name_s>> :> Dir(<<Name_h>>)) @@
    (Cwd \o <<Name_d, Name_s, Name_h>> :> File("x")) @@
    (Cwd \o <<Name_d, Name_b_c>> :> File("y")) @@
    (Cwd \o <<Name_p>> :> Fifo) @@
    (Cwd \o <<Name_e_txt>> :> Dir(<<Name_k>>)) @@
    (Cwd \o <<Name_e_txt, Name_k>> :> File("z"))

\* Path(rel_path): the parts of the path; pathlib drops "" and "." components
\* and keeps "..".  The part "/" comes first when the path is absolute (which
\* no stripped rel_path is).
Path(rel_path) ==
    (IF rel_path # <<>> /\ rel_path[1] = "/" THEN << <<"/">> >> ELSE <<>>) \o
    Pick(split1(rel_path, "/"),
         {i \in 1..Len(split1(rel_path, "/")) :
              split1(rel_path, "/")[i] # <<>> /\ split1(rel_path, "/")[i] # <<".">>})

\* the longest file name, in bytes, the filesystem takes (NAME_MAX)
NameMax == 255

RECURSIVE utf8_size(_)
utf8_size(name) ==
    IF name = <<>> THEN 0
    ELSE IF Len(name) = 1 THEN utf8_len(name[1])
    ELSE utf8_size(SubSeq(name, 1, Len(name) \div 2))
         + utf8_size(SubSeq(name, Len(name) \div 2 + 1, Len(name)))

name_too_long(name) == 4 * Len(name) > NameMax /\ utf8_size(name) > NameMax

\* the path walk of os.stat, from a directory on: the node the parts lead to,
\* or the error of the first part that fails
RECURSIVE walk(_, _, _)
walk(node, parts, i) ==
    IF i > Len(parts) THEN [status |-> "ok", node |-> node]
    ELSE IF FS[node].kind # "dir" THEN [status |-> "ENOTDIR", node |-> node]
    ELSE IF parts[i] = <<".">> THEN walk(node, parts, i + 1)
    ELSE IF parts[i] = <<".", ".">>
         THEN walk(IF node = <<>> THEN <<>> ELSE SubSeq(node, 1, Len(node) - 1), parts, i + 1)
    ELSE IF name_too_long(parts[i]) THEN [status |-> "ENAMETOOLONG", node |-> node]
    ELSE IF (node \o <<parts[i]>>) \notin DOMAIN FS THEN [status |-> "ENOENT", node |-> node]
    ELSE walk(node \o <<parts[i]>>, parts, i + 1)

\* os.stat(p): a path holding the character U+0000 is refused with ValueError
\* before any lookup
stat(p) ==
    IF \E i \in 1..Len(p) : Chr(0) \in Range(p[i])
    THEN [status |-> "ValueError", node |-> <<>>]
    ELSE IF p # <<>> /\ p[1] = <<"/">> THEN walk(<<>>, p, 2)
    ELSE walk(Cwd, p, 1)

\* Path.exists(): False for ENOENT, ENOTDIR and ValueError; any other OSError
\* (here ENAMETOOLONG) is raised
exists_raises(p) == stat(p).status = "ENAMETOOLONG"
exists(p) == stat(p).status = "ok"
is_file(p) == exists(p) /\ FS[stat(p).node].kind = "file"
is_dir(p) == exists(p) /\ FS[stat(p).node].kind = "dir"
name_of(p) == IF p = <<>> \/ p[Len(p)] = <<"/">> THEN <<>> ELSE p[Len(p)]
iterdir(p) == [i \in 1..Len(FS[stat(p).node].entries) |-> p \o <<FS[stat(p).node].entries[i]>>]

\* open(rel_path, "rb"): the kernel walks the string as it is, "." components
\* included (pathlib dropped them for exists and is_file), so "." after a
\* regular file is ENOTDIR
raw_parts(rel_path) ==
    (IF rel_path # <<>> /\ rel_path[1] = "/" THEN << <<"/">> >> ELSE <<>>) \o
    Pick(split1(rel_path, "/"),
         {i \in 1..Len(split1(rel_path, "/")) : split1(rel_path, "/")[i] # <<>>})

open_error(rel_path) ==
    IF stat(raw_parts(rel_path)).status = "ok" THEN "none"
    ELSE IF stat(raw_parts(rel_path)).status = "ENOTDIR" THEN "NotADirectoryError"
    ELSE IF stat(raw_parts(rel_path)).status = "ENOENT" THEN "FileNotFoundError"
    ELSE IF stat(raw_parts(rel_path)).status = "ValueError" THEN "ValueError"
    ELSE "OSError"

read_bytes(rel_path) == FS[stat(raw_parts(rel_path)).node].content

\* mimetypes.guess_type(path)[0]: the type of the extension posixpath.splitext
\* finds (the text from the last "." of the last component, unless only dots
\* precede it), <<>> for None
TypesMap == (".txt" :> "text/plain") @@ (".html" :> "text/html") @@ (".png" :> "image/png")

splitext(path) ==
    LET seps == {k \in 1..Len(path) : path[k] = "/"}
        sepIndex == IF seps = {} THEN 0 ELSE CHOOSE k \in seps : \A j \in seps : j <= k
        dots == {k \in 1..Len(path) : path[k] = "."}
        dotIndex == IF dots = {} THEN 0 ELSE CHOOSE k \in dots : \A j \in dots : j <= k
    IN  IF dotIndex > sepIndex /\ \E k \in (sepIndex + 1)..(dotIndex - 1) : path[k] # "."
        THEN SubSeq(path, dotIndex, Len(path))
        ELSE <<>>

guess_type(path) ==
    IF Str(splitext(path)) \in DOMAIN TypesMap THEN <<TypesMap[Str(splitext(path))]>> ELSE <<>>

\* ---------------------------------------------------------------- render_directory_contents
\* the two marker glyphs of lines 235 and 240 (outside ASCII)
FolderMarker == "[folder]"
FileMarker == "[file]"

RECURSIVE select_kind(_, _)
select_kind(children, kind) ==
    IF children = <<>> THEN <<>>
    ELSE (IF FS[stat(children[1]).node].kind = kind THEN <<children[1]>> ELSE <<>>)
         \o select_kind(Tail(children), kind)

directories_of(p) == select_kind(iterdir(p), "dir")
files_of(p) == select_kind(iterdir(p), "file")

\* one rendered paragraph: its marker, the child it links, and the text
href_of(p, child) == quote(name_of(p) \o <<"/">> \o name_of(child))

entry_of(p, child, marker) ==
    [marker |-> marker,
     child |-> child,
     text |-> "<p>" \o marker \o " <a href=\"" \o Str(href_of(p, child)) \o "\">"
              \o Str(name_of(child)) \o "</a></p>\n"]

\* the paragraphs in the order they are appended: every directory, then every file
listing(p) ==
    [i \in 1..Len(directories_of(p)) |-> entry_of(p, directories_of(p)[i], FolderMarker)]
    \o [i \in 1..Len(files_of(p)) |-> entry_of(p, files_of(p)[i], FileMarker)]

RECURSIVE concat_text(_)
concat_text(entries) ==
    IF entries = <<>> THEN "" ELSE entries[1].text \o concat_text(Tail(entries))

render_directory_contents(path) ==
    "<head><meta charset=\"UTF-8\"></head>" \o concat_text(listing(Path(path)))

\* ---------------------------------------------------------------- HTTPServer
\* the class attributes as written at lines 65-74
DefaultHeaders == <<<<"Server", "CrudeServer">>, <<"Content-Type", "text/html">>>>
StatusTable == (200 :> "OK") @@ (404 :> "Not Found") @@ (501 :> "Not Implemented")

\* every attribute getattr can find on an HTTPServer whose name starts with
\* "handle_" is one of these methods
HandlerAttributes == {"handle_request", "handle_OPTIONS", "handle_GET"}

\* dict.update: a key already present keeps its place and takes the new value,
\* a new key is appended
RECURSIVE update(_, _)
update(d, extra) ==
    IF extra = <<>> THEN d
    ELSE LET k == extra[1][1]
             v == extra[1][2]
             hit == {i \in 1..Len(d) : d[i][1] = k}
         IN  update(IF hit = {} THEN Append(d, <<k, v>>)
                    ELSE [i \in 1..Len(d) |-> IF i \in hit THEN <<k, v>> ELSE d[i]],
                    Tail(extra))

\* headers_copy after lines 104-107
headers_copy(self_headers, extra_headers) ==
    IF extra_headers # <<>> THEN update(self_headers, extra_headers) ELSE self_headers

\* line 104 without .copy(): headers_copy is self.headers itself, and the update
\* of line 107 lands in the class-level mapping
self_headers_after_no_copy(self_headers, extra_headers) ==
    headers_copy(self_headers, extra_headers)

\* self.headers after response_headers returns: the update went to the copy
self_headers_after(self_headers, extra_headers) == self_headers

RECURSIVE render_headers(_)
render_headers(d) ==
    IF d = <<>> THEN ""
    ELSE d[1][1] \o ": " \o d[1][2] \o "\r\n" \o render_headers(Tail(d))

response_headers(self_headers, extra_headers) ==
    render_headers(headers_copy(self_headers, extra_headers))

response_line(self, status_code) ==
    "HTTP/1.1 " \o ToString(status_code) \o " " \o self.status_codes[status_code] \o "\r\n"

\* What a handler call comes to: raised is "none" and bytes the returned
\* response (status, headers, body are what bytes was joined from), or raised
\* names the exception it left with.  self_headers is self.headers afterwards.
Returned(self, status, extra_headers, parts) ==
    [raised |-> "none",
     status |-> status,
     headers |-> headers_copy(self.headers, extra_headers),
     body |-> IF Len(parts) > 3 THEN parts[4] ELSE "",
     bytes |-> Str(parts),
     self_headers |-> self_headers_after(self.headers, extra_headers)]

Raised(self, exception) ==
    [raised |-> exception, status |-> 0, headers |-> <<>>, body |-> "", bytes |-> "",
     self_headers |-> self.headers]

NoResponse ==
    [raised |-> "unset", status |-> 0, headers |-> <<>>, body |-> "", bytes |-> "",
     self_headers |-> <<>>]

handle_OPTIONS(self, req) ==
    LET extra_headers == <<<<"Allow", "OPTIONS, GET">>>>
    IN  Returned(self, 200, extra_headers,
                 <<response_line(self, 200),
                   response_headers(self.headers, extra_headers),
                   "\r\n">>)

HTTP_501_handler(self, req) ==
    Returned(self, 501, <<>>,
             <<response_line(self, 501),
               response_headers(self.headers, <<>>),
               "\r\n",
               "<h1>501 Not Implemented</h1>">>)

\* lines 133-135: percent-decode, strip the slashes, "." for an empty result
rel_path_of(uri) ==
    IF strip_slash(unquote(uri)) = <<>> THEN <<".">> ELSE strip_slash(unquote(uri))

content_type_of(rel_path) ==
    IF guess_type(rel_path) # <<>> THEN guess_type(rel_path)[1] ELSE "text/html"

handle_GET(self, req) ==
    IF req.uri = <<>>
    THEN Raised(self, "TypeError")      \* urllib.parse.unquote(None)
    ELSE LET rel_path == rel_path_of(req.uri[1])
         IN  IF exists_raises(Path(rel_path))
             THEN Raised(self, "OSError")               \* Path(rel_path).exists() at line 142
             ELSE IF exists(Path(rel_path)) /\ ~is_file(Path(rel_path)) /\ ~is_dir(Path(rel_path))
             THEN Raised(self, "NotADirectoryError")    \* p.iterdir() at line 232
             ELSE IF is_file(Path(rel_path)) /\ open_error(rel_path) # "none"
             THEN Raised(self, open_error(rel_path))    \* open(rel_path, "rb") at line 153
             ELSE IF exists(Path(rel_path))
             THEN LET extra_headers == <<<<"Content-Type", content_type_of(rel_path)>>>>
                  IN  Returned(self, 200, extra_headers,
                               <<response_line(self, 200),
                                 response_headers(self.headers, extra_headers),
                                 "\r\n",
                                 IF is_file(Path(rel_path))
                                 THEN read_bytes(rel_path)
                                 ELSE render_directory_contents(rel_path)>>)
             ELSE Returned(self, 404, <<>>,
                           <<response_line(self, 404),
                             response_headers(self.headers, <<>>),
                             "\r\n",
                             "<h1>404 Not Found: " \o Str(rel_path) \o "</h1>">>)

\* getattr(self, "handle_%s" % request.method), HTTP_501_handler on AttributeError
handler_for(method) ==
    IF ("handle_" \o Str(method)) \in HandlerAttributes
    THEN "handle_" \o Str(method)
    ELSE "HTTP_501_handler"

handle_request(self, buf) ==
    LET req == parse(buf)
    IN  IF req.raised # "none" THEN Raised(self, req.raised)
        ELSE CASE handler_for(req.method[1]) = "handle_GET" -> handle_GET(self, req)
               [] handler_for(req.method[1]) = "handle_OPTIONS" -> handle_OPTIONS(self, req)
               [] handler_for(req.method[1]) = "HTTP_501_handler" -> HTTP_501_handler(self, req)
               \* handle_request(request): HTTPRequest(request) calls request.split
               [] handler_for(req.method[1]) = "handle_request" -> Raised(self, "AttributeError")

\* ---------------------------------------------------------------- inputs
\* first words of a request line: the two handled methods, the empty word, other
\* words, the word "request", and a word that is not UTF-8
Methods ==
    {
      <<"G", "E", "T">>,
      <<"O", "P", "T", "I", "O", "N", "S">>,
      <<>>,
      <<"g", "e", "t">>,
      <<"D", "E", "L", "E", "T", "E">>,
      <<"r", "e", "q", "u", "e", "s", "t">>,
      <<NonAscii>>
    }

\* a name one byte longer than the filesystem takes
LongName == [i \in 1..(NameMax + 1) |-> "x"]

\* second words: existing and missing paths, percent escapes (one of them a
\* two-byte character, one a byte that is not UTF-8), "." and "..", a name that
\* is too long, the empty word, a word that is not UTF-8
Uris ==
    {
      <<"/">>,
      <<"/", "a", ".", "t", "x", "t">>,
      <<"/", "d">>,
      <<"/", "d", "/">>,
      <<"/", "e", ".", "t", "x", "t">>,
      <<"/", "p">>,
      <<"/", "m", "i", "s", "s", "i", "n", "g">>,
      <<"/", "d", "/", "b", "%", "2", "0", "c">>,
      <<"%", "2", "F">>,
      <<"/", "x", "%", "2", "0", "y">>,
      <<"/", "d", "%", "2", "F", "s">>,
      <<"/", "%", "z", "z">>,
      <<>>,
      <<"/", NonAscii>>,
      <<"/", "a", ".", "t", "x", "t", "/", ".">>,
      <<"/", "d", "/", ".", "/", "g">>,
      <<"/", "d", "/", ".", ".">>,
      <<"/", "d", "/", ".", ".", "/", "a", ".", "t", "x", "t">>,
      <<"/", ".", ".">>,
      <<"/", "%", "C", "3", "%", "A", "9">>,
      <<"/", "%", "E", "9">>,
      <<"/">> \o LongName
    }

Versions == { <<"H", "T", "T", "P", "/", "1", ".", "1">> }

\* what follows the request line: nothing, or a header line and the blank line
Rests == { <<>>, <<"\r", "\n", "A", ":", " ", "b", "\r", "\n", "\r", "\n">> }

RequestLines ==
    Methods
    \cup {m \o <<" ">> \o u : m \in Methods, u \in Uris}
    \cup {m \o <<" ">> \o u \o <<" ">> \o v : m \in Methods, u \in Uris, v \in Versions}

\* the buffers recv may return
Buffers == {l \o r : l \in RequestLines, r \in Rests}

\* ---------------------------------------------------------------- TCPServer.start
Self == [headers |-> headers, status_codes |-> status_codes]

Init ==
    /\ pc = "accept"
    /\ accepted = 0
    /\ conn = 0
    /\ open = {}
    /\ reads = 0
    /\ data = <<>>
    /\ request = NoRequest
    /\ response = NoResponse
    /\ sent = <<>>
    /\ exc = "none"
    /\ headers = DefaultHeaders
    /\ status_codes = StatusTable

\* conn, addr = s.accept(): a new iteration, its locals not yet bound
Accept ==
    /\ pc = "accept"
    /\ accepted < MaxConns
    /\ accepted' = accepted + 1
    /\ conn' = accepted + 1
    /\ open' = open \cup {accepted + 1}
    /\ reads' = 0
    /\ data' = <<>>
    /\ request' = NoRequest
    /\ response' = NoResponse
    /\ pc' = "recv"
    /\ UNCHANGED <<sent, exc, headers, status_codes>>

\* data = conn.recv(1024)
Recv(buf) ==
    /\ pc = "recv"
    /\ Len(buf) <= ReadSize
    /\ data' = <<buf>>
    /\ reads' = reads + 1
    /\ pc' = "handle"
    /\ UNCHANGED <<accepted, conn, open, request, response, sent, exc, headers, status_codes>>

\* conn.recv raises (the peer reset the connection): nothing catches it
RecvError ==
    /\ pc = "recv"
    /\ reads' = reads + 1
    /\ exc' = "ConnectionResetError"
    /\ pc' = "crashed"
    /\ UNCHANGED <<accepted, conn, open, data, request, response, sent, headers, status_codes>>

\* response = self.handle_request(data)
Handle ==
    /\ pc = "handle"
    /\ request' = parse(data[1])
    /\ response' = handle_request(Self, data[1])
    /\ headers' = handle_request(Self, data[1]).self_headers
    /\ exc' = IF handle_request(Self, data[1]).raised = "none" THEN exc
              ELSE handle_request(Self, data[1]).raised
    /\ pc' = IF handle_request(Self, data[1]).raised = "none" THEN "send" ELSE "crashed"
    /\ UNCHANGED <<accepted, conn, open, reads, data, sent, status_codes>>

\* conn.sendall(response)
Send ==
    /\ pc = "send"
    /\ sent' = Append(sent, [conn |-> conn, headers |-> response.headers])
    /\ pc' = "close"
    /\ UNCHANGED <<accepted, conn, open, reads, data, request, response, exc, headers, status_codes>>

\* the exceptions conn.sendall leaves with when the peer is gone
SendErrors == {"BrokenPipeError", "ConnectionResetError"}

\* conn.sendall raises: nothing catches it
SendError ==
    /\ pc = "send"
    /\ \E e \in SendErrors : exc' = e
    /\ pc' = "crashed"
    /\ UNCHANGED <<accepted, conn, open, reads, data, request, response, sent, headers, status_codes>>

\* conn.close()
Close ==
    /\ pc = "close"
    /\ open' = open \ {conn}
    /\ pc' = "accept"
    /\ UNCHANGED <<accepted, conn, reads, data, request, response, sent, exc, headers, status_codes>>

Next ==
    \/ Accept
    \/ \E buf \in Buffers : Recv(buf)
    \/ RecvError
    \/ Handle
    \/ Send
    \/ SendError
    \/ Close

Spec == Init /\ [][Next]_vars

\* ---------------------------------------------------------------- properties
\* the request of the current connection was parsed / its handling is over
Parsed == request.raised = "none"
Handled == response.raised # "unset"
MethodText == Str(request.method[1])

HeaderValues(d, key) == {d[i][2] : i \in {j \in 1..Len(d) : d[j][1] = key}}

\* C1: no failure while a connection is processed (a parse failure, an
\* exception in a handler, a filesystem error, a transport error of recv or
\* sendall) ends the server: start is never left by an exception, it goes on
\* to the next accept().
C1_ServerKeepsRunning == pc # "crashed" /\ exc = "none"

\* C2: for every buffer handed to handle_request the call returns, and what it
\* returns is a well-formed response: a status line with a code of 200, 404 or
\* 501, headers with Server: CrudeServer and a Content-Type, a blank line, and
\* the body.
C2_AlwaysWellFormedResponse ==
    Handled =>
        /\ response.raised = "none"
        /\ response.status \in {200, 404, 501}
        /\ HeaderValues(response.headers, "Server") = {"CrudeServer"}
        /\ Cardinality(HeaderValues(response.headers, "Content-Type")) = 1
        /\ response.bytes =
               "HTTP/1.1 " \o ToString(response.status) \o " "
               \o StatusTable[response.status] \o "\r\n"
               \o render_headers(response.headers) \o "\r\n" \o response.body

\* C3: every request whose parsed method is neither GET nor OPTIONS is answered
\* by the fallback handler: status 501 and the body <h1>501 Not Implemented</h1>.
C3_OtherMethodsGet501 ==
    (Parsed /\ Handled /\ MethodText \notin {"GET", "OPTIONS"}) =>
        /\ response.raised = "none"
        /\ response.status = 501
        /\ response.body = "<h1>501 Not Implemented</h1>"

\* C4: each accepted connection is read once, answered and closed before the
\* next accept(); two connections are never open at once, and whenever the loop
\* is done with a connection (it is back at accept(), or it was left) that
\* connection is closed.
C4_ConnectionLifecycle ==
    /\ Cardinality(open) <= 1
    /\ reads <= 1
    /\ pc \in {"handle", "send", "close"} => (reads = 1 /\ open = {conn})
    /\ pc = "close" => sent # <<>> /\ sent[Len(sent)].conn = conn
    /\ pc \in {"accept", "crashed"} => open = {}

\* C5: a buffer whose request line starts with the word OPTIONS, whatever its
\* URI (given or not, an existing path or not, any bytes) and whatever follows,
\* is answered with exactly status 200, the default Server and Content-Type
\* headers, Allow: OPTIONS, GET, and an empty body; the URI plays no part.
C5_Options ==
    (Handled /\ words_of(data[1])[1] = <<"O", "P", "T", "I", "O", "N", "S">>) =>
        /\ response.raised = "none"
        /\ response.status = 200
        /\ response.body = ""
        /\ response.bytes =
               "HTTP/1.1 200 OK\r\nServer: CrudeServer\r\nContent-Type: text/html\r\n"
               \o "Allow: OPTIONS, GET\r\n\r\n"

\* the relative path the claim names: the URI percent-decoded, its leading and
\* trailing "/" stripped, "." when nothing is left
C6_DecodedRelativePath(uri) ==
    LET stripped == strip_slash(unquote(uri))
    IN  IF Len(stripped) = 0 THEN <<".">> ELSE stripped

\* C6: a GET whose decoded relative path names nothing that exists is answered
\* with status 404, the default headers (Content-Type: text/html) and the body
\* <h1>404 Not Found: decoded relative path</h1>.
C6_NotFound ==
    (Parsed /\ Handled /\ MethodText = "GET" /\ request.uri # <<>>
        /\ stat(Path(C6_DecodedRelativePath(request.uri[1]))).status # "ok") =>
        /\ response.raised = "none"
        /\ response.status = 404
        /\ response.bytes =
               "HTTP/1.1 404 Not Found\r\nServer: CrudeServer\r\nContent-Type: text/html\r\n\r\n"
               \o "<h1>404 Not Found: " \o Str(C6_DecodedRelativePath(request.uri[1]))
               \o "</h1>"

\* C7: a GET of an existing directory, whatever its name, is answered with
\* status 200 and Content-Type: text/html.
C7_DirectoryIsHtml ==
    (Parsed /\ Handled /\ MethodText = "GET" /\ request.uri # <<>>
        /\ is_dir(Path(C6_DecodedRelativePath(request.uri[1])))) =>
        /\ response.raised = "none"
        /\ response.status = 200
        /\ HeaderValues(response.headers, "Content-Type") = {"text/html"}

\* C8: the body of a directory listing has exactly one link per immediate child
\* of the directory, of whatever kind; every subdirectory comes before every
\* regular file; nothing that is not an immediate child is linked.
C8_OneLinkPerChild ==
    (Parsed /\ Handled /\ MethodText = "GET" /\ request.uri # <<>>
        /\ is_dir(Path(C6_DecodedRelativePath(request.uri[1])))) =>
        LET dir == Path(C6_DecodedRelativePath(request.uri[1]))
            links == listing(dir)
        IN  /\ response.raised = "none"
            /\ response.body = "<head><meta charset=\"UTF-8\"></head>" \o concat_text(links)
            /\ \A child \in Range(iterdir(dir)) :
                   Cardinality({i \in 1..Len(links) : links[i].child = child}) = 1
            /\ \A i \in 1..Len(links) : links[i].child \in Range(iterdir(dir))
            /\ \A i, j \in 1..Len(links) :
                   (is_dir(links[i].child) /\ is_file(links[j].child)) => i < j

\* the number of space-separated words of the first line of a buffer
C9_Words(buf) == 1 + Cardinality({k \in 1..Len(first_line(buf)) : first_line(buf)[k] = " "})

\* C9: after parsing, method is non-empty; uri is set only when the
\* request line has a second word; http_version is "1.1" when it has fewer
\* than three.
C9_MethodNonEmpty ==
    Parsed =>
        /\ request.method # <<>> /\ request.method[1] # <<>>
        /\ request.uri # <<>> => C9_Words(data[1]) >= 2
        /\ C9_Words(data[1]) < 3 => request.http_version = <<"1", ".", "1">>

\* C10: nothing of one request reaches the next: the class-level header mapping
\* and status table stay as written, and every response is the one a server
\* that has served nothing yet gives to the same buffer.
C10_NoCarryOver ==
    /\ headers = <<<<"Server", "CrudeServer">>, <<"Content-Type", "text/html">>>>
    /\ status_codes = (200 :> "OK") @@ (404 :> "Not Found") @@ (501 :> "Not Implemented")
    /\ (Handled /\ response.raised = "none") =>
           response.bytes =
               handle_request([headers |-> DefaultHeaders, status_codes |-> StatusTable],
                              data[1]).bytes
    /\ (Handled /\ response.raised = "none" /\ MethodText # "OPTIONS") =>
           HeaderValues(response.headers, "Allow") = {}

\* a 404 has been computed right after an OPTIONS response, with its Allow
\* header, was written
C10_Witness ==
    /\ pc = "send" /\ response.status = 404
    /\ Len(sent) = 1 /\ HeaderValues(sent[1].headers, "Allow") = {"OPTIONS, GET"}

====
